---- MODULE Spec2Model ----
(***************************************************************************)
(* Session / report state machine of the OmniDiag front end (src/App.tsx)  *)
(* together with the diagnostic client (src/services/geminiService.ts).    *)
(*                                                                         *)
(* Every React state cell of the App component is a variable.  One action  *)
(* models one event handler run to completion, or one resumption of an     *)
(* async handler after an await (the event loop is single threaded, so a   *)
(* handler segment between two awaits is atomic).  Values captured by the  *)
(* closure of an async handler are kept in the record of the pending       *)
(* request: after the await the code reads those, not the live cells.      *)
(***************************************************************************)
EXTENDS Integers, Sequences, FiniteSets, TLC

\* ------------------------------------------------------------------ bounds
\* History entries that may be created before the model stops submitting.
MaxHistory == 2
\* Chat messages accepted over the life of the page.
MaxChatSends == 2
\* Fragments the upstream may yield in one streamed reply.
MaxFragments == 2
\* Results the recognizer may produce in one recording.
MaxResults == 2

\* ------------------------------------------------------------------ values
\* JavaScript null for a cell that otherwise holds an object.
Null == [null |-> TRUE]
\* JavaScript null for a cell that otherwise holds a string.
NullStr == "null"
\* JavaScript null for activeIndex (indices are 0-based as in the code).
NullIndex == -1
\* Property absent from a parsed JSON object.
Undefined == "undefined"

\* RiskAssessment['severity'], src/types.ts
Severities == {"Low", "Medium", "High", "Critical"}

\* severityLevels in handleSubmit: the rank of a severity; a key that is
\* not in the table (an absent severity) reads as undefined.
severityLevels(s) ==
    CASE s = "Low" -> 1
      [] s = "Medium" -> 2
      [] s = "High" -> 3
      [] s = "Critical" -> 4
      [] OTHER -> 0

\* Values of the alert threshold select.
Thresholds == Severities \cup {"None"}

\* A parsed report object.  Only the fields the handlers dereference are
\* kept: possibleCauses (present or absent), riskAssessment (present or
\* absent) and riskAssessment.severity (a severity or absent).
ReportValue(causes, risk, sev) ==
    [possibleCauses |-> causes, riskAssessment |-> risk, severity |-> sev]

\* Objects that satisfy the DiagnosticReport interface.
ValidReports == {ReportValue(TRUE, TRUE, s) : s \in Severities}

\* JSON objects the upstream may return that omit a required field.
PartialReports ==
    { ReportValue(TRUE, TRUE, Undefined),     \* riskAssessment.severity absent
      ReportValue(TRUE, FALSE, Undefined),    \* riskAssessment absent
      ReportValue(FALSE, TRUE, "High") }      \* possibleCauses absent


\* The report the narrowed specifications submit for.
SampleReport == ReportValue(TRUE, TRUE, "High")

\* A response text is a sequence of tokens: white space, a character that
\* begins no JSON value, or the text of one JSON value.
Ws == [t |-> "ws", value |-> Null]
Junk == [t |-> "junk", value |-> Null]
Json(r) == [t |-> "json", value |-> r]

\* Texts the upstream may answer: one JSON object, the same padded with
\* white space, wrapped in a markdown fence, sent twice, and texts that
\* hold no value at all.
ResponseTexts ==
    { <<Json(r)>> : r \in ValidReports \cup PartialReports }
    \cup { <<Ws, Json(SampleReport), Ws>>,
           <<Junk, Json(SampleReport), Junk>>,
           <<Json(SampleReport), Json(SampleReport)>>,
           <<Junk>>, <<Ws>>, <<>> }

\* What the upstream call can do: reject, or answer with a text.
Responses ==
    { [kind |-> "reject", text |-> <<>>] }
    \cup { [kind |-> "text", text |-> t] : t \in ResponseTexts }

\* The response that carries the sample report and nothing else.
SampleResponse == [kind |-> "text", text |-> <<Json(SampleReport)>>]

\* Message texts.
ValidationMsg == "Please provide a description, image, or voice note to start the diagnosis."
UpstreamMsg == "Failed to get diagnostic report from AI: upstream error"
SyntaxMsg == "Failed to get diagnostic report from AI: SyntaxError"
TypeErrorMsg == "Cannot read properties of undefined"

\* Values of the description textarea and of the chat input box.
TextInputs == {"", "t"}
ChatInputs == {"", " ", "q"}

\* String.prototype.trim on the chat inputs.
trim(s) == IF s = " " THEN "" ELSE s

\* ------------------------------------------------------------------- state
VARIABLES
    textInput,        \* useState textInput
    imageFile,        \* useState imageFile (the chosen File, or null)
    imageBase64,      \* useState imageBase64 (the data read from a File, or null)
    reads,            \* FileReader reads started and not yet finished
    isRecording,      \* useState isRecording
    audioTranscript,  \* useState audioTranscript
    transcriptRef,    \* useRef transcriptRef.current
    recognition,      \* the platform recognizer: "idle", "running" or "stopping"
    results,          \* the results produced since the recording was started
    isLoading,        \* useState isLoading
    error,            \* useState error
    report,           \* useState report
    history,          \* useState history, newest first
    activeIndex,      \* useState activeIndex
    chat,             \* useState chat (the session handle, or null)
    chatHistory,      \* useState chatHistory
    isChatLoading,    \* useState isChatLoading
    chatInput,        \* useState chatInput
    alertThreshold,   \* useState alertThreshold
    activeAlert,      \* useState activeAlert
    pending,          \* the handleSubmit call suspended at its await, or null
    streams,          \* the handleSendChatMessage calls made so far
    crashed,          \* a render threw and React unmounted the tree
    event             \* the handler that ran last

imageVars == <<imageFile, imageBase64, reads>>
speechVars == <<isRecording, audioTranscript, transcriptRef, recognition, results>>
inputVars == <<textInput, imageFile, imageBase64, reads, isRecording,
               audioTranscript, transcriptRef, recognition, results>>
reportVars == <<isLoading, error, report, history, activeIndex, pending>>
chatVars == <<chat, chatHistory, isChatLoading, chatInput, streams>>
alertVars == <<alertThreshold, activeAlert>>
vars == <<textInput, imageFile, imageBase64, reads, isRecording, audioTranscript,
          transcriptRef, recognition, results, isLoading, error, report, history,
          activeIndex, chat, chatHistory, isChatLoading, chatInput, alertThreshold,
          activeAlert, pending, streams, crashed, event>>

\* The handler that ran last, with its argument (0 when it has none).
Event(op, arg) == [op |-> op, arg |-> arg]

\* State after construction: the useState initial values (lines 28-48).
Init ==
    /\ textInput = ""
    /\ imageFile = NullStr
    /\ imageBase64 = NullStr
    /\ reads = {}
    /\ isRecording = FALSE
    /\ audioTranscript = <<>>
    /\ transcriptRef = <<>>
    /\ recognition = "idle"
    /\ results = <<>>
    /\ isLoading = FALSE
    /\ error = NullStr
    /\ report = Null
    /\ history = <<>>
    /\ activeIndex = NullIndex
    /\ chat = Null
    /\ chatHistory = <<>>
    /\ isChatLoading = FALSE
    /\ chatInput = ""
    /\ alertThreshold = "None"
    /\ activeAlert = Null
    /\ pending = Null
    /\ streams = <<>>
    /\ crashed = FALSE
    /\ event = Event("init", 0)

\* The record of a handleSubmit call resumed with the upstream's response.
Resolved(op, resp) == [op |-> op, arg |-> 0, resp |-> resp]

\* ------------------------------------------------------- diagnostic client
\* String.prototype.trim on a response text (line 158): white space is
\* removed from both ends.
RECURSIVE trimStart(_)
trimStart(s) == IF s # <<>> /\ Head(s) = Ws THEN trimStart(Tail(s)) ELSE s
RECURSIVE trimEnd(_)
trimEnd(s) ==
    IF s # <<>> /\ s[Len(s)] = Ws THEN trimEnd(SubSeq(s, 1, Len(s) - 1)) ELSE s
trimText(s) == trimEnd(trimStart(s))

\* JsonParse that returns the first value found anywhere in the text.
JsonParseFirstValue(s) ==
    IF \E i \in 1 .. Len(s) : s[i].t = "json"
    THEN [ok |-> TRUE,
          value |-> s[CHOOSE i \in 1 .. Len(s) :
                        /\ s[i].t = "json"
                        /\ \A j \in 1 .. i - 1 : s[j].t # "json"].value]
    ELSE [ok |-> FALSE, value |-> Null]

\* JSON.parse (line 159): white space is skipped, one value is read, white
\* space is skipped again and the text must end there; anything else is a
\* SyntaxError.
JsonParse(s) ==
    LET a == trimStart(s)
    IN IF a = <<>> \/ Head(a).t # "json"
       THEN [ok |-> FALSE, value |-> Null]
       ELSE IF trimStart(Tail(a)) # <<>>
            THEN [ok |-> FALSE, value |-> Null]
            ELSE [ok |-> TRUE, value |-> Head(a).value]

\* runDiagnostics: the upstream call, then JSON.parse of the trimmed text.
\* A rejection and a parse failure are both rethrown as Error; any value
\* that parses is returned as it is, cast to DiagnosticReport.
runDiagnostics(resp) ==
    IF resp.kind = "reject"
    THEN [ok |-> FALSE, message |-> UpstreamMsg, value |-> Null]
    ELSE LET reportData == JsonParse(trimText(resp.text))
         IN IF reportData.ok
            THEN [ok |-> TRUE, message |-> NullStr, value |-> reportData.value]
            ELSE [ok |-> FALSE, message |-> SyntaxMsg, value |-> Null]

\* ai.chats.create with the system instruction built from a report: a new
\* session that has exchanged no message yet.
ChatCreate(r) == [report |-> r, sent |-> 0]

\* The JSX of the report panel dereferences report.riskAssessment and
\* report.possibleCauses: rendering a report that lacks one of them throws.
RenderThrows(r) == r # Null /\ (~r.riskAssessment \/ ~r.possibleCauses)

\* -------------------------------------------------------------- handlers
\* onChange of the description textarea.
SetTextInput(v) ==
    /\ ~crashed
    /\ textInput' = v
    /\ event' = Event("setTextInput", 0)
    /\ UNCHANGED <<imageVars, speechVars, reportVars, chatVars, alertVars, crashed>>

\* onChange of the alert threshold select.
SetAlertThreshold(t) ==
    /\ ~crashed
    /\ alertThreshold' = t
    /\ event' = Event("setAlertThreshold", 0)
    /\ UNCHANGED <<inputVars, reportVars, chatVars, activeAlert, crashed>>

\* The dismiss button of the alert banner, rendered while an alert is raised.
DismissAlert ==
    /\ ~crashed
    /\ activeAlert # Null
    /\ activeAlert' = Null
    /\ event' = Event("dismissAlert", 0)
    /\ UNCHANGED <<inputVars, reportVars, chatVars, alertThreshold, crashed>>

\* NothingToSend testing the chosen file instead of the data read from it.
NothingToSendByFile ==
    textInput = "" /\ imageFile = NullStr /\ audioTranscript = <<>>

\* The condition at line 151: no description, no image data, no transcript.
NothingToSend ==
    textInput = "" /\ imageBase64 = NullStr /\ audioTranscript = <<>>

\* handleSubmit, validation branch (lines 151-154).  The submit button is
\* disabled while isLoading is set.
SubmitInvalid ==
    /\ ~crashed
    /\ ~isLoading
    /\ NothingToSend
    /\ error' = ValidationMsg
    /\ event' = Event("submitInvalid", 0)
    /\ UNCHANGED <<inputVars, isLoading, report, history, activeIndex, pending,
                   chatVars, alertVars, crashed>>

\* SubmitStart from a submit button that stays enabled while loading.
SubmitStartWhileLoading ==
    /\ ~crashed
    /\ Len(history) < MaxHistory
    /\ ~NothingToSend
    /\ isLoading' = TRUE
    /\ error' = NullStr
    /\ report' = Null
    /\ activeIndex' = NullIndex
    /\ chat' = Null
    /\ chatHistory' = <<>>
    /\ activeAlert' = Null
    /\ pending' = [textInput |-> textInput, imageFile |-> imageFile,
                   imageBase64 |-> imageBase64, audioTranscript |-> audioTranscript,
                   alertThreshold |-> alertThreshold, isRecording |-> isRecording]
    /\ event' = Event("submitStart", 0)
    /\ UNCHANGED <<inputVars, history, isChatLoading, chatInput, streams,
                   alertThreshold, crashed>>

\* SubmitStart without the setActiveAlert(null) of line 161.
SubmitStartKeepingAlert ==
    /\ ~crashed
    /\ ~isLoading
    /\ Len(history) < MaxHistory
    /\ ~NothingToSend
    /\ isLoading' = TRUE
    /\ error' = NullStr
    /\ report' = Null
    /\ activeIndex' = NullIndex
    /\ chat' = Null
    /\ chatHistory' = <<>>
    /\ pending' = [textInput |-> textInput, imageFile |-> imageFile,
                   imageBase64 |-> imageBase64, audioTranscript |-> audioTranscript,
                   alertThreshold |-> alertThreshold, isRecording |-> isRecording]
    /\ event' = Event("submitStart", 0)
    /\ UNCHANGED <<inputVars, history, isChatLoading, chatInput, streams,
                   alertVars, crashed>>

\* handleSubmit up to its await: the session is reset and the request is
\* sent.  The record keeps what the closure of this call captured.
SubmitStart ==
    /\ ~crashed
    /\ ~isLoading
    /\ Len(history) < MaxHistory
    /\ ~NothingToSend
    /\ isLoading' = TRUE
    /\ error' = NullStr
    /\ report' = Null
    /\ activeIndex' = NullIndex
    /\ chat' = Null
    /\ chatHistory' = <<>>
    /\ activeAlert' = Null
    /\ pending' = [textInput |-> textInput, imageFile |-> imageFile,
                   imageBase64 |-> imageBase64, audioTranscript |-> audioTranscript,
                   alertThreshold |-> alertThreshold, isRecording |-> isRecording]
    /\ event' = Event("submitStart", 0)
    /\ UNCHANGED <<inputVars, history, isChatLoading, chatInput, streams,
                   alertThreshold, crashed>>

\* AlertFor with a strict comparison of the ranks.
AlertForStrict(r, t) ==
    IF t # "None" /\ severityLevels(r.severity) > severityLevels(t)
    THEN [severity |-> r.severity, threshold |-> t]
    ELSE Null

\* The alert rule of handleSubmit (lines 169-179): the alert to raise for a
\* new report under a threshold, or null when none is raised.
AlertFor(r, t) ==
    IF t # "None" /\ severityLevels(r.severity) >= severityLevels(t)
    THEN [severity |-> r.severity, threshold |-> t]
    ELSE Null

\* newReport.riskAssessment.severity at line 176 throws a TypeError when
\* riskAssessment is absent; the line is reached only with a threshold set.
ThrowsAtAlert(r, t) == t # "None" /\ ~r.riskAssessment

\* The system instruction built at lines 197-205 calls possibleCauses.join
\* and reads riskAssessment.severity.
ThrowsAtChat(r) == ~r.possibleCauses \/ ~r.riskAssessment

\* newHistoryEntry (lines 181-190).  Date.now() only identifies the entry;
\* it is kept as the entry's position counted from the oldest one.
HistoryEntry(r, c) ==
    [id |-> Len(history) + 1,
     report |-> r,
     userInput |-> [text |-> c.textInput,
                    image |-> c.imageFile # NullStr,
                    audio |-> transcriptRef]]

\* PrependEntry with the new entry put behind the others.
PrependEntryAtTail(entry, prevHistory) == Append(prevHistory, entry)

\* The updater at line 192: the new entry goes in front of the others.
PrependEntry(entry, prevHistory) == <<entry>> \o prevHistory

\* recognition.stop(): a running recognizer winds down and will fire onend.
RecognitionStop(st) == IF st = "running" THEN "stopping" ELSE st

\* clearInputs (lines 139-148), called from the closure of the handleSubmit
\* call c: isRecording is the value that call captured.  When the recording
\* flag changes, the effect cleanup at lines 87-91 stops the recognizer too.
ClearInputs(c) ==
    /\ textInput' = ""
    /\ imageFile' = NullStr
    /\ imageBase64' = NullStr
    /\ audioTranscript' = <<>>
    /\ transcriptRef' = <<>>
    /\ isRecording' = IF c.isRecording THEN FALSE ELSE isRecording
    /\ recognition' = IF c.isRecording THEN RecognitionStop(recognition) ELSE recognition
    /\ UNCHANGED <<reads, results>>

\* SubmitFail with clearInputs moved into the finally block.
SubmitFailClearingInputs(resp) ==
    /\ ~crashed
    /\ pending # Null
    /\ ~runDiagnostics(resp).ok
    /\ error' = runDiagnostics(resp).message
    /\ isLoading' = FALSE
    /\ ClearInputs(pending)
    /\ pending' = Null
    /\ event' = Resolved("submitFail", resp)
    /\ UNCHANGED <<report, history, activeIndex, chatVars, alertVars, crashed>>

\* SubmitFail without the finally block.
SubmitFailKeepingLoading(resp) ==
    /\ ~crashed
    /\ pending # Null
    /\ ~runDiagnostics(resp).ok
    /\ error' = runDiagnostics(resp).message
    /\ pending' = Null
    /\ event' = Resolved("submitFail", resp)
    /\ UNCHANGED <<inputVars, isLoading, report, history, activeIndex, chatVars,
                   alertVars, crashed>>

\* handleSubmit resumed with runDiagnostics rejected: catch and finally.
SubmitFail(resp) ==
    /\ ~crashed
    /\ pending # Null
    /\ ~runDiagnostics(resp).ok
    /\ error' = runDiagnostics(resp).message
    /\ isLoading' = FALSE
    /\ pending' = Null
    /\ event' = Resolved("submitFail", resp)
    /\ UNCHANGED <<inputVars, report, history, activeIndex, chatVars, alertVars, crashed>>

\* handleSubmit resumed with a value that lacks a field the handler
\* dereferences: the statements before the TypeError have run, then catch
\* and finally.
SubmitThrow(resp) ==
    /\ ~crashed
    /\ pending # Null
    /\ runDiagnostics(resp).ok
    /\ LET r == runDiagnostics(resp).value
           c == pending
       IN /\ ThrowsAtAlert(r, c.alertThreshold) \/ ThrowsAtChat(r)
          /\ report' = r
          /\ IF ThrowsAtAlert(r, c.alertThreshold)
             THEN UNCHANGED <<activeAlert, history, activeIndex>>
             ELSE /\ activeAlert' = IF AlertFor(r, c.alertThreshold) # Null
                                    THEN AlertFor(r, c.alertThreshold)
                                    ELSE activeAlert
                  /\ history' = PrependEntry(HistoryEntry(r, c), history)
                  /\ activeIndex' = 0
          /\ error' = TypeErrorMsg
          /\ isLoading' = FALSE
          /\ pending' = Null
          /\ crashed' = RenderThrows(r)
    /\ event' = Resolved("submitThrow", resp)
    /\ UNCHANGED <<inputVars, chatVars, alertThreshold>>

\* SubmitCommit reading the threshold cell when the answer arrives.
SubmitCommitLiveThreshold(resp) ==
    /\ ~crashed
    /\ pending # Null
    /\ runDiagnostics(resp).ok
    /\ LET r == runDiagnostics(resp).value
           c == pending
       IN /\ ~ThrowsAtAlert(r, alertThreshold)
          /\ ~ThrowsAtChat(r)
          /\ report' = r
          /\ activeAlert' = IF AlertFor(r, alertThreshold) # Null
                            THEN AlertFor(r, alertThreshold)
                            ELSE activeAlert
          /\ history' = PrependEntry(HistoryEntry(r, c), history)
          /\ activeIndex' = 0
          /\ chat' = ChatCreate(r)
          /\ ClearInputs(c)
          /\ isLoading' = FALSE
          /\ pending' = Null
          /\ crashed' = RenderThrows(r)
    /\ event' = Resolved("submitCommit", resp)
    /\ UNCHANGED <<error, chatHistory, isChatLoading, chatInput, streams, alertThreshold>>

\* handleSubmit resumed with a value it can use: the report is committed.
SubmitCommit(resp) ==
    /\ ~crashed
    /\ pending # Null
    /\ runDiagnostics(resp).ok
    /\ LET r == runDiagnostics(resp).value
           c == pending
       IN /\ ~ThrowsAtAlert(r, c.alertThreshold)
          /\ ~ThrowsAtChat(r)
          /\ report' = r
          /\ activeAlert' = IF AlertFor(r, c.alertThreshold) # Null
                            THEN AlertFor(r, c.alertThreshold)
                            ELSE activeAlert
          /\ history' = PrependEntry(HistoryEntry(r, c), history)
          /\ activeIndex' = 0
          /\ chat' = ChatCreate(r)
          /\ ClearInputs(c)
          /\ isLoading' = FALSE
          /\ pending' = Null
          /\ crashed' = RenderThrows(r)
    /\ event' = Resolved("submitCommit", resp)
    /\ UNCHANGED <<error, chatHistory, isChatLoading, chatInput, streams, alertThreshold>>

\* HandleSelectHistory that also moves the selected entry to the front.
HandleSelectHistoryMovingToFront(i) ==
    /\ ~crashed
    /\ i \in 0 .. Len(history) - 1
    /\ LET entry == history[i + 1]
       IN /\ report' = entry.report
          /\ activeIndex' = 0
          /\ history' = <<entry>> \o SubSeq(history, 1, i)
                                 \o SubSeq(history, i + 2, Len(history))
          /\ chatHistory' = <<>>
          /\ activeAlert' = Null
          /\ chat' = ChatCreate(entry.report)
          /\ crashed' = RenderThrows(entry.report)
    /\ event' = Event("selectHistory", i)
    /\ UNCHANGED <<inputVars, isLoading, error, pending, isChatLoading,
                   chatInput, streams, alertThreshold>>

\* HandleSelectHistory showing the newest entry's report whatever was clicked.
HandleSelectHistoryNewest(i) ==
    /\ ~crashed
    /\ i \in 0 .. Len(history) - 1
    /\ LET entry == history[1]
       IN /\ report' = entry.report
          /\ activeIndex' = i
          /\ chatHistory' = <<>>
          /\ activeAlert' = Null
          /\ chat' = ChatCreate(entry.report)
          /\ crashed' = RenderThrows(entry.report)
    /\ event' = Event("selectHistory", i)
    /\ UNCHANGED <<inputVars, isLoading, error, history, pending, isChatLoading,
                   chatInput, streams, alertThreshold>>

\* HandleSelectHistory without setChatHistory([]) and without a new session.
HandleSelectHistoryKeepingChat(i) ==
    /\ ~crashed
    /\ i \in 0 .. Len(history) - 1
    /\ LET entry == history[i + 1]
       IN /\ report' = entry.report
          /\ activeIndex' = i
          /\ activeAlert' = Null
          /\ chat' = IF chat = Null THEN ChatCreate(entry.report) ELSE chat
          /\ crashed' = RenderThrows(entry.report)
    /\ event' = Event("selectHistory", i)
    /\ UNCHANGED <<inputVars, isLoading, error, history, pending, chatHistory,
                   isChatLoading, chatInput, streams, alertThreshold>>

\* handleSelectHistory(entry, index) for the list item at 0-based index i.
HandleSelectHistory(i) ==
    /\ ~crashed
    /\ i \in 0 .. Len(history) - 1
    /\ LET entry == history[i + 1]
       IN /\ report' = entry.report
          /\ activeIndex' = i
          /\ chatHistory' = <<>>
          /\ activeAlert' = Null
          /\ chat' = ChatCreate(entry.report)
          /\ crashed' = RenderThrows(entry.report)
    /\ event' = Event("selectHistory", i)
    /\ UNCHANGED <<inputVars, isLoading, error, history, pending, isChatLoading,
                   chatInput, streams, alertThreshold>>

\* handleClearHistory with window.confirm answered yes.  The button is
\* rendered while the history is not empty.
ClearHistoryConfirmed ==
    /\ ~crashed
    /\ Len(history) > 0
    /\ history' = <<>>
    /\ report' = Null
    /\ activeIndex' = NullIndex
    /\ chat' = Null
    /\ chatHistory' = <<>>
    /\ event' = Event("clearHistory", 1)
    /\ UNCHANGED <<inputVars, isLoading, error, pending, isChatLoading, chatInput,
                   streams, alertVars, crashed>>

\* ClearHistoryDeclined that closes the report and the chat all the same.
ClearHistoryDeclinedClosingReport ==
    /\ ~crashed
    /\ Len(history) > 0
    /\ report' = Null
    /\ activeIndex' = NullIndex
    /\ chat' = Null
    /\ chatHistory' = <<>>
    /\ event' = Event("clearHistory", 0)
    /\ UNCHANGED <<inputVars, isLoading, error, history, pending, isChatLoading,
                   chatInput, streams, alertVars, crashed>>

\* handleClearHistory with window.confirm answered no.
ClearHistoryDeclined ==
    /\ ~crashed
    /\ Len(history) > 0
    /\ event' = Event("clearHistory", 0)
    /\ UNCHANGED <<inputVars, reportVars, chatVars, alertVars, crashed>>

\* --------------------------------------------------------------- follow-up
\* Pieces of text of a chat turn: the user's message, one streamed chunk, or
\* the fixed apology.
UserText(k) == [src |-> "user", reply |-> k, n |-> 0]
ChunkText(k, n) == [src |-> "chunk", reply |-> k, n |-> n]
Apology == [src |-> "apology", reply |-> 0, n |-> 0]

\* An element of chatHistory.  reply is the handleSendChatMessage call that
\* pushed the object (the identity of the object, which the code does not
\* store).
Turn(role, text, k) == [role |-> role, text |-> text, reply |-> k]

\* The guard at line 265.
SendRejected == trim(chatInput) = "" \/ chat = Null \/ isChatLoading

\* The chat panel (input box and send button) is rendered while a report
\* and a chat session are both set.
ChatPanelShown == report # Null /\ chat # Null

\* onChange of the chat input box.
SetChatInput(v) ==
    /\ ~crashed
    /\ ChatPanelShown
    /\ chatInput' = v
    /\ event' = Event("setChatInput", 0)
    /\ UNCHANGED <<inputVars, reportVars, chat, chatHistory, isChatLoading, streams,
                   alertVars, crashed>>

\* handleSendChatMessage returning at its guard.
SendChatIgnored ==
    /\ ~crashed
    /\ ChatPanelShown
    /\ SendRejected
    /\ event' = Event("sendChatIgnored", 0)
    /\ UNCHANGED <<inputVars, reportVars, chatVars, alertVars, crashed>>

\* handleSendChatMessage up to its await (lines 267-273).
SendChatAccepted ==
    /\ ~crashed
    /\ ChatPanelShown
    /\ ~SendRejected
    /\ Len(streams) < MaxChatSends
    /\ LET k == Len(streams) + 1
       IN /\ chatInput' = ""
          /\ chatHistory' = Append(chatHistory, Turn("user", <<UserText(k)>>, k))
          /\ isChatLoading' = TRUE
          /\ chat' = [chat EXCEPT !.sent = @ + 1]
          /\ streams' = Append(streams, [phase |-> "opening", got |-> 0])
          /\ event' = Event("sendChatAccepted", k)
    /\ UNCHANGED <<inputVars, reportVars, alertVars, crashed>>

\* Call k resumed with the stream opened (lines 274-276).
StreamOpen(k) ==
    /\ ~crashed
    /\ k \in 1 .. Len(streams)
    /\ streams[k].phase = "opening"
    /\ isChatLoading' = FALSE
    /\ chatHistory' = Append(chatHistory, Turn("model", <<>>, k))
    /\ streams' = [streams EXCEPT ![k].phase = "streaming"]
    /\ event' = Event("streamOpen", k)
    /\ UNCHANGED <<inputVars, reportVars, chat, chatInput, alertVars, crashed>>

\* AppendChunk with the chunk put in front of the text received so far.
AppendChunkInFront(log, piece) ==
    [log EXCEPT ![Len(log)].text = <<piece>> \o @]

\* The updater at lines 280-284: the chunk is added to the text of the last
\* element, whichever it is; with no element the updater throws while
\* React renders.
AppendChunk(log, piece) ==
    [log EXCEPT ![Len(log)].text = Append(@, piece)]

\* Call k resumed with the next chunk of its stream (lines 278-285).
StreamChunk(k) ==
    /\ ~crashed
    /\ k \in 1 .. Len(streams)
    /\ streams[k].phase = "streaming"
    /\ streams[k].got < MaxFragments
    /\ IF chatHistory = <<>>
       THEN crashed' = TRUE /\ UNCHANGED chatHistory
       ELSE /\ chatHistory' = AppendChunk(chatHistory, ChunkText(k, streams[k].got + 1))
            /\ UNCHANGED crashed
    /\ streams' = [streams EXCEPT ![k].got = @ + 1]
    /\ event' = Event("streamChunk", k)
    /\ UNCHANGED <<inputVars, reportVars, chat, isChatLoading, chatInput, alertVars>>

\* Call k resumed with its stream exhausted: the handler returns.
StreamEnd(k) ==
    /\ ~crashed
    /\ k \in 1 .. Len(streams)
    /\ streams[k].phase = "streaming"
    /\ streams' = [streams EXCEPT ![k] = [phase |-> "closed", got |-> 0]]
    /\ event' = Event("streamEnd", k)
    /\ UNCHANGED <<inputVars, reportVars, chat, chatHistory, isChatLoading, chatInput,
                   alertVars, crashed>>

\* StreamFail without the setIsChatLoading(false) of the catch block.
StreamFailKeepingFlag(k) ==
    /\ ~crashed
    /\ k \in 1 .. Len(streams)
    /\ streams[k].phase \in {"opening", "streaming"}
    /\ chatHistory' = Append(chatHistory, Turn("model", <<Apology>>, k))
    /\ streams' = [streams EXCEPT ![k] = [phase |-> "closed", got |-> 0]]
    /\ event' = Event("streamFail", k)
    /\ UNCHANGED <<inputVars, reportVars, chat, isChatLoading, chatInput, alertVars,
                   crashed>>

\* Call k resumed with sendMessageStream rejected, or with its stream
\* throwing: the catch block (lines 286-290).
StreamFail(k) ==
    /\ ~crashed
    /\ k \in 1 .. Len(streams)
    /\ streams[k].phase \in {"opening", "streaming"}
    /\ chatHistory' = Append(chatHistory, Turn("model", <<Apology>>, k))
    /\ isChatLoading' = FALSE
    /\ streams' = [streams EXCEPT ![k] = [phase |-> "closed", got |-> 0]]
    /\ event' = Event("streamFail", k)
    /\ UNCHANGED <<inputVars, reportVars, chat, chatInput, alertVars, crashed>>

\* Replies accepted whose stream has neither ended nor failed.
InFlight == {k \in 1 .. Len(streams) : streams[k].phase \in {"opening", "streaming"}}

\* ------------------------------------------------------------------- image
\* Files the user may pick.
ImageFiles == {"a.png", "b.jpg"}

\* reader.result of a file, after split(',')[1]: the text after the comma
\* of the data URL.
Base64Of(f) ==
    CASE f = "a.png" -> "iVBORw0KGgo="
      [] f = "b.jpg" -> "/9j/4AAQSkZJRg=="
      [] OTHER -> ""

\* file.type of a chosen file.
MimeOf(f) ==
    CASE f = "a.png" -> "image/png"
      [] f = "b.jpg" -> "image/jpeg"
      [] OTHER -> ""

\* imagePayload of the handleSubmit call c (line 165): the type of the
\* chosen file with the data held in imageBase64, or undefined when either
\* is missing.
imagePayload(c) ==
    IF c.imageFile # NullStr /\ c.imageBase64 # NullStr
    THEN [mimeType |-> MimeOf(c.imageFile), data |-> c.imageBase64]
    ELSE Null

\* handleImageChange: the input is rendered while no image data is shown.
HandleImageChange(f) ==
    /\ ~crashed
    /\ imageBase64 = NullStr
    /\ imageFile' = f
    /\ reads' = reads \cup {f}
    /\ event' = Event("imageChange", 0)
    /\ UNCHANGED <<textInput, imageBase64, speechVars, reportVars, chatVars, alertVars,
                   crashed>>

\* reader.onloadend of the read started for f.
ReaderLoadEnd(f) ==
    /\ ~crashed
    /\ f \in reads
    /\ imageBase64' = Base64Of(f)
    /\ reads' = reads \ {f}
    /\ event' = Event("readerLoadEnd", 0)
    /\ UNCHANGED <<textInput, imageFile, speechVars, reportVars, chatVars, alertVars,
                   crashed>>

\* clearImage from the button on the preview.
ClearImage ==
    /\ ~crashed
    /\ imageBase64 # NullStr
    /\ imageFile' = NullStr
    /\ imageBase64' = NullStr
    /\ event' = Event("clearImage", 0)
    /\ UNCHANGED <<textInput, reads, speechVars, reportVars, chatVars, alertVars, crashed>>

\* ------------------------------------------------------------------ speech
SpeechErrorMsg == "Speech recognition error: no-speech"

\* A result the recognizer has produced since the recording was started:
\* final or interim, and live while it belongs to the running recognition
\* session.  event.results is the list of the live results; the results of
\* the sessions that ended are kept in front of them and are out of the
\* recognizer's reach.  The transcript of the result at position i is the
\* piece i.
Result(final) == [final |-> final, live |-> TRUE]

\* A new session begins: the results so far belong to an ended session.
EndSession(rs) == [i \in 1 .. Len(rs) |-> [rs[i] EXCEPT !.live = FALSE]]

\* The loop of recognition.onresult (lines 57-65) over event.results from
\* event.resultIndex: the transcripts of the results with the given
\* finality, in order.
RECURSIVE Collect(_, _, _)
Collect(rs, from, final) ==
    IF from > Len(rs) THEN <<>>
    ELSE (IF rs[from].final = final THEN <<from>> ELSE <<>>)
         \o Collect(rs, from + 1, final)

\* recognition.onresult for an event whose results are the live ones of rs
\* and whose resultIndex is the position idx.
OnResult(rs, idx) ==
    /\ results' = rs
    /\ transcriptRef' = Collect(rs, idx, TRUE)
    /\ audioTranscript' = Collect(rs, idx, TRUE) \o Collect(rs, idx, FALSE)
    /\ event' = Event("onResult", idx)
    /\ UNCHANGED <<textInput, imageVars, isRecording, recognition, reportVars, chatVars,
                   alertVars, crashed>>

\* The recognizer hears a new phrase: a result is added, interim or final.
ResultAdded(final) ==
    /\ ~crashed
    /\ recognition = "running"
    /\ Len(results) < MaxResults
    /\ OnResult(Append(results, Result(final)), Len(results) + 1)

\* The recognizer settles an interim result i.
ResultFinalized(i) ==
    /\ ~crashed
    /\ recognition = "running"
    /\ i \in 1 .. Len(results)
    /\ results[i].live
    /\ ~results[i].final
    /\ OnResult([results EXCEPT ![i].final = TRUE], i)

\* OnError that also empties the transcript.
OnErrorClearingTranscript ==
    /\ ~crashed
    /\ recognition = "running"
    /\ error' = SpeechErrorMsg
    /\ isRecording' = FALSE
    /\ recognition' = "stopping"
    /\ audioTranscript' = <<>>
    /\ transcriptRef' = <<>>
    /\ event' = Event("onError", 0)
    /\ UNCHANGED <<textInput, imageVars, results,
                   isLoading, report, history, activeIndex, pending, chatVars, alertVars,
                   crashed>>

\* recognition.onerror (lines 70-74); the recognizer then winds down.
OnError ==
    /\ ~crashed
    /\ recognition = "running"
    /\ error' = SpeechErrorMsg
    /\ isRecording' = FALSE
    /\ recognition' = "stopping"
    /\ event' = Event("onError", 0)
    /\ UNCHANGED <<textInput, imageVars, audioTranscript, transcriptRef, results,
                   isLoading, report, history, activeIndex, pending, chatVars, alertVars,
                   crashed>>

\* OnEndIdle that starts the recognizer again.
OnEndIdleRestarting ==
    /\ ~crashed
    /\ recognition \in {"running", "stopping"}
    /\ ~isRecording
    /\ recognition' = "running"
    /\ results' = EndSession(results)
    /\ event' = Event("onEnd", 0)
    /\ UNCHANGED <<textInput, imageVars, isRecording, audioTranscript, transcriptRef,
                   reportVars, chatVars, alertVars, crashed>>

\* recognition.onend (lines 76-85) with the recording flag off: nothing is
\* restarted, and the ended session's result list is gone.
OnEndIdle ==
    /\ ~crashed
    /\ recognition \in {"running", "stopping"}
    /\ ~isRecording
    /\ recognition' = "idle"
    /\ results' = <<>>
    /\ event' = Event("onEnd", 0)
    /\ UNCHANGED <<textInput, imageVars, isRecording, audioTranscript, transcriptRef,
                   reportVars, chatVars, alertVars, crashed>>

\* recognition.onend with the recording flag on: recognition.start() is
\* called again and a new session begins, or start() throws and the flag is
\* turned off.
OnEndRestart(started) ==
    /\ ~crashed
    /\ recognition \in {"running", "stopping"}
    /\ isRecording
    /\ IF started
       THEN /\ recognition' = "running"
            /\ results' = EndSession(results)
            /\ UNCHANGED isRecording
       ELSE recognition' = "idle" /\ isRecording' = FALSE /\ UNCHANGED results
    /\ event' = Event("onEnd", 1)
    /\ UNCHANGED <<textInput, imageVars, audioTranscript, transcriptRef, reportVars,
                   chatVars, alertVars, crashed>>

\* handleRecordClick while recording (lines 119-122).
RecordStop ==
    /\ ~crashed
    /\ isRecording
    /\ recognition' = RecognitionStop(recognition)
    /\ isRecording' = FALSE
    /\ audioTranscript' = transcriptRef
    /\ event' = Event("recordStop", 0)
    /\ UNCHANGED <<textInput, imageVars, transcriptRef, results, reportVars, chatVars,
                   alertVars, crashed>>

\* handleRecordClick while not recording (lines 124-127).  start() throws
\* when the recognizer of the previous recording has not ended yet, and the
\* handler is left before the flag is set; otherwise the flag changes and
\* the cleanup of the effect (lines 87-91) calls stop() on the recognizer
\* just started, which therefore ends and is restarted by onend.
RecordStart ==
    /\ ~crashed
    /\ ~isRecording
    /\ transcriptRef' = <<>>
    /\ audioTranscript' = <<>>
    /\ IF recognition = "idle"
       THEN recognition' = "stopping" /\ results' = <<>> /\ isRecording' = TRUE
       ELSE UNCHANGED <<recognition, results, isRecording>>
    /\ event' = Event("recordStart", 0)
    /\ UNCHANGED <<textInput, imageVars, reportVars, chatVars, alertVars, crashed>>

\* -------------------------------------------------------------------- spec
\* The handlers of the report panel, the history list and the alert banner.
ReportNext ==
    \/ \E v \in TextInputs : SetTextInput(v)
    \/ \E t \in Thresholds : SetAlertThreshold(t)
    \/ DismissAlert
    \/ SubmitInvalid
    \/ SubmitStart
    \/ \E resp \in Responses : SubmitFail(resp)
    \/ \E resp \in Responses : SubmitThrow(resp)
    \/ \E resp \in Responses : SubmitCommit(resp)
    \/ \E i \in 0 .. MaxHistory : HandleSelectHistory(i)
    \/ ClearHistoryConfirmed
    \/ ClearHistoryDeclined

\* The handlers of the follow-up chat.
ChatNext ==
    \/ \E v \in ChatInputs : SetChatInput(v)
    \/ SendChatIgnored
    \/ SendChatAccepted
    \/ \E k \in 1 .. MaxChatSends : StreamOpen(k)
    \/ \E k \in 1 .. MaxChatSends : StreamChunk(k)
    \/ \E k \in 1 .. MaxChatSends : StreamEnd(k)
    \/ \E k \in 1 .. MaxChatSends : StreamFail(k)

\* The handlers of the voice note: the record button and the recognizer's
\* callbacks.
SpeechNext ==
    \/ \E final \in BOOLEAN : ResultAdded(final)
    \/ \E i \in 1 .. MaxResults : ResultFinalized(i)
    \/ OnError
    \/ OnEndIdle
    \/ \E started \in BOOLEAN : OnEndRestart(started)
    \/ RecordStop
    \/ RecordStart

\* The handlers of the image picker and of the voice note.
InputNext ==
    \/ \E f \in ImageFiles : HandleImageChange(f)
    \/ \E f \in ImageFiles : ReaderLoadEnd(f)
    \/ ClearImage
    \/ SpeechNext

\* Every handler of the page.
Next == ReportNext \/ ChatNext \/ InputNext

Spec == Init /\ [][Next]_vars

\* The three panels are checked one at a time, each together with the
\* handlers of the other panels that write the cells it reads.

\* Report panel: every handler of the report, history and alert cells with
\* every upstream response, and the chat up to the point where a message
\* is waiting for its answer.
SpecReport ==
    Init /\ [][ \/ ReportNext
                \/ \E v \in {"q"} : SetChatInput(v)
                \/ SendChatAccepted ]_vars


\* Input panel: every handler of the description, image and voice cells,
\* with one result heard per recording, and submissions, made from an
\* empty history, that fail or commit one report.
SpecInput ==
    Init /\ [][ \/ \E f \in ImageFiles : HandleImageChange(f)
                \/ \E f \in ImageFiles : ReaderLoadEnd(f)
                \/ ClearImage
                \/ \E final \in BOOLEAN : (results = <<>> /\ ResultAdded(final))
                \/ \E i \in 1 .. MaxResults : ResultFinalized(i)
                \/ OnError
                \/ OnEndIdle
                \/ \E started \in BOOLEAN : OnEndRestart(started)
                \/ RecordStop
                \/ RecordStart
                \/ \E v \in TextInputs : SetTextInput(v)
                \/ SubmitInvalid
                \/ (history = <<>> /\ SubmitStart)
                \/ \E resp \in Responses : SubmitFail(resp)
                \/ SubmitCommit(SampleResponse)
                \/ ClearHistoryConfirmed ]_vars

\* Voice note: every handler of the recording with up to MaxResults
\* results per recording, and a submission that commits one report and so
\* clears the inputs.
SpecSpeech ==
    Init /\ [][ \/ SpeechNext
                \/ \E v \in {"t"} : SetTextInput(v)
                \/ (history = <<>> /\ SubmitStart)
                \/ SubmitCommit(SampleResponse) ]_vars

\* Chat panel: every handler of the chat, and the report handlers that
\* reset it.
SpecChat ==
    Init /\ [][ \/ ChatNext
                \/ \E v \in {"t"} : SetTextInput(v)
                \/ SubmitStart
                \/ SubmitCommit(SampleResponse)
                \/ \E i \in 0 .. MaxHistory : HandleSelectHistory(i)
                \/ ClearHistoryConfirmed ]_vars

\* One reply at a time: a message is sent, a report is submitted for and a
\* history entry is selected only while no reply is awaited or streamed, so
\* each reply runs from its send to its end with no other write to the
\* chat log.
SpecReply ==
    Init /\ [][ \/ \E v \in {"t"} : SetTextInput(v)
                \/ (InFlight = {} /\ SubmitStart)
                \/ SubmitCommit(SampleResponse)
                \/ \E i \in 0 .. MaxHistory : (InFlight = {} /\ HandleSelectHistory(i))
                \/ \E v \in ChatInputs : SetChatInput(v)
                \/ SendChatIgnored
                \/ (InFlight = {} /\ SendChatAccepted)
                \/ \E k \in 1 .. MaxChatSends :
                       StreamOpen(k) \/ StreamChunk(k) \/ StreamEnd(k) \/ StreamFail(k) ]_vars

\* Chat under resubmission: the only way a chat session is opened or
\* closed is a submission, so every reply accepted before the latest
\* accepted submission belongs to a session that submission closed.
SpecSupersede ==
    Init /\ [][ \/ \E v \in {"t"} : SetTextInput(v)
                \/ SubmitStart
                \/ SubmitCommit(SampleResponse)
                \/ \E v \in {"q"} : SetChatInput(v)
                \/ SendChatAccepted
                \/ \E k \in 1 .. MaxChatSends :
                       StreamOpen(k) \/ StreamChunk(k) \/ StreamEnd(k) \/ StreamFail(k) ]_vars

\* handleSubmit resumed, whatever the upstream call has done.
SubmitResolved ==
    \E resp \in Responses : SubmitFail(resp) \/ SubmitThrow(resp) \/ SubmitCommit(resp)

\* Submissions under an upstream that always answers: the handlers that
\* run between a submission and its answer, and weak fairness of the
\* resumption of handleSubmit, which is enabled from the moment the request
\* is sent until it is taken.
SpecSubmitLive ==
    /\ Init
    /\ [][ \/ \E v \in TextInputs : SetTextInput(v)
           \/ \E t \in {"None", "High"} : SetAlertThreshold(t)
           \/ SubmitInvalid
           \/ SubmitStart
           \/ SubmitResolved
           \/ \E i \in 0 .. MaxHistory : HandleSelectHistory(i)
           \/ ClearHistoryConfirmed ]_vars
    /\ WF_vars(SubmitResolved)

\* ------------------------------------------------------------------ claims
\* The last step was a run of the handler op.
Ran(op) == event.op = op

\* Rank of a severity in the order Low < Medium < High < Critical.
SeverityOrder == <<"Low", "Medium", "High", "Critical">>
Rank(s) == CHOOSE i \in 1 .. Len(SeverityOrder) : SeverityOrder[i] = s

\* C1: every handleSubmit call that runs to the end of its try block with
\* the report returned by the request adds exactly one entry, in front of
\* the previous history, which is otherwise unchanged; the active report is
\* then that entry's report and the active index is 0, whatever was done
\* while the request was in flight.
C1_CommitPrependsOneEntry ==
    [][ event'.op = "submitCommit" =>
          /\ Len(history') = Len(history) + 1
          /\ Tail(history') = history
          /\ report' = Head(history').report
          /\ activeIndex' = 0 ]_vars

\* C1 witness: a commit onto a history that already held an entry, after a
\* chat message was sent in the meantime.
C1_Witness ==
    /\ Ran("submitCommit")
    /\ Len(history) = 2
    /\ history[1].report # history[2].report
    /\ Len(streams) >= 1

\* C2: when description, image data and transcript are all empty, a click
\* on submit only stores the validation message: no request is started and
\* history, report, index, chat, chat log, alert and loading flag stay.
C2_EmptySubmissionRejected ==
    [][ ( /\ event'.op \in {"submitInvalid", "submitStart"}
          /\ ~isLoading
          /\ textInput = "" /\ imageBase64 = NullStr /\ audioTranscript = <<>> ) =>
          /\ error' = ValidationMsg
          /\ pending' = Null
          /\ UNCHANGED <<history, report, activeIndex, chat, chatHistory,
                         activeAlert, isLoading>> ]_vars

\* C2 witness: the validation message after an empty submission made while
\* a report is shown, a file is chosen and its data is not read yet.
C2_Witness ==
    /\ Ran("submitInvalid")
    /\ error = ValidationMsg
    /\ report # Null /\ history # <<>> /\ chat # Null
    /\ imageFile # NullStr /\ imageBase64 = NullStr

\* C3: a committed report of severity s raises an alert exactly when the
\* threshold t the submission was made under is not None and
\* Rank(s) >= Rank(t); the alert names s and t.
C3_AlertIffRankAtLeastThreshold ==
    [][ ( event'.op = "submitCommit" /\ report'.severity \in Severities ) =>
          LET s == report'.severity
              t == pending.alertThreshold
          IN /\ (activeAlert' # Null) <=> (t # "None" /\ Rank(s) >= Rank(t))
             /\ activeAlert' # Null =>
                  activeAlert' = [severity |-> s, threshold |-> t] ]_vars

\* C3 witness: a report whose severity equals the threshold raised the
\* alert.
C3_Witness ==
    /\ Ran("submitCommit")
    /\ activeAlert = [severity |-> "High", threshold |-> "High"]

\* C4: a response that parses as JSON but omits a required field never
\* becomes the active report and never enters the history.
C4_NoPartialReport ==
    /\ report \notin PartialReports
    /\ \A i \in 1 .. Len(history) : history[i].report \notin PartialReports

\* C5: when the request fails (upstream error, or text that is not JSON)
\* the message is stored and the loading flag cleared, while the input
\* buffers, the history and the active report stay as they were.
C5_FailurePreservesInputs ==
    [][ event'.op = "submitFail" =>
          /\ error' \in {UpstreamMsg, SyntaxMsg}
          /\ ~isLoading'
          /\ UNCHANGED <<textInput, imageFile, imageBase64, audioTranscript,
                         transcriptRef>>
          /\ UNCHANGED <<history, report>> ]_vars

\* C5 witness: a failed request with a description, an image and a
\* transcript still in the input buffers.
C5_Witness ==
    /\ Ran("submitFail")
    /\ error = SyntaxMsg
    /\ textInput # "" /\ imageFile # NullStr /\ imageBase64 # NullStr
    /\ audioTranscript # <<>> /\ transcriptRef # <<>>

\* C6: selecting the entry at index i makes the active report
\* history[i].report and the active index i, from any session state.
C6_SelectShowsEntry ==
    [][ event'.op = "selectHistory" =>
          /\ event'.arg \in 0 .. Len(history) - 1
          /\ report' = history[event'.arg + 1].report
          /\ activeIndex' = event'.arg ]_vars

\* C6 witness: the older of two different reports selected while an error
\* message is shown.
C6_Witness ==
    /\ Ran("selectHistory")
    /\ event.arg = 1
    /\ activeIndex = 1
    /\ report = history[2].report
    /\ history[1].report # history[2].report
    /\ error # NullStr

\* C7: selectHistory empties the chat log, clears the alert and opens a new
\* session for the selected report; it starts no request and leaves the
\* history alone.
C7_SelectResetsChatAndAlert ==
    [][ event'.op = "selectHistory" =>
          /\ chatHistory' = <<>>
          /\ activeAlert' = Null
          /\ chat' = [report |-> report', sent |-> 0]
          /\ UNCHANGED <<pending, isLoading, history>> ]_vars

\* C7 witness: an entry selected in a session in which a chat message had
\* been sent and is still waiting for its answer; the session opened by the
\* selection has sent none and the log is empty.
C7_Witness ==
    /\ Ran("selectHistory")
    /\ Len(streams) >= 1 /\ isChatLoading
    /\ chat # Null /\ chat.sent = 0
    /\ chatHistory = <<>>

\* C8: a confirmed clearHistory leaves history, active report, active
\* index, chat session, chat log and alert all empty or null.
C8_ClearHistoryClearsAll ==
    [][ event' = Event("clearHistory", 1) =>
          /\ history' = <<>>
          /\ report' = Null
          /\ activeIndex' = NullIndex
          /\ chat' = Null
          /\ chatHistory' = <<>>
          /\ activeAlert' = Null ]_vars

\* C9: at most one chat reply is awaited or streamed at a time.
C9_OneReplyInFlight == Cardinality(InFlight) <= 1

\* C10: a streamed chunk is only ever found in the assistant turn pushed by
\* the call that received it, and no chunk arrives on an empty chat log.
C10_ChunksInOwnTurn ==
    /\ \A i \in 1 .. Len(chatHistory) :
         \A j \in 1 .. Len(chatHistory[i].text) :
            chatHistory[i].text[j].src = "chunk" =>
               /\ chatHistory[i].role = "model"
               /\ chatHistory[i].text[j].reply = chatHistory[i].reply
    /\ ~(crashed /\ Ran("streamChunk"))

\* The first n chunks of reply k, in the order the stream yields them.
Chunks(k, n) == [i \in 1 .. n |-> ChunkText(k, i)]

\* The log ends with the user turn of call k followed by one assistant
\* turn whose text is the first n chunks of its reply.
EndsWithReply(log, k, n) ==
    /\ Len(log) >= 2
    /\ log[Len(log) - 1] = Turn("user", <<UserText(k)>>, k)
    /\ log[Len(log)] = Turn("model", Chunks(k, n), k)

\* C11: when nothing else writes the chat log while a reply is awaited and
\* streamed, after each fragment the log ends with the user turn followed
\* by one assistant turn holding the fragments received so far, in order,
\* the turns before it are untouched, and when the stream ends the
\* assistant turn holds every fragment of the reply.
C11_ReplyIsConcatenation ==
    [][ /\ event'.op = "streamChunk" =>
              /\ EndsWithReply(chatHistory', event'.arg, streams'[event'.arg].got)
              /\ EndsWithReply(chatHistory, event'.arg, streams[event'.arg].got)
              /\ Len(chatHistory') = Len(chatHistory)
              /\ \A i \in 1 .. Len(chatHistory) - 1 : chatHistory'[i] = chatHistory[i]
        /\ event'.op = "streamEnd" =>
              /\ EndsWithReply(chatHistory', event'.arg, streams[event'.arg].got)
              /\ chatHistory' = chatHistory ]_vars

\* A second reply has ended with MaxFragments fragments in its turn.
C11_Witness ==
    /\ Ran("streamEnd")
    /\ Len(chatHistory) >= 4
    /\ Len(chatHistory[Len(chatHistory)].text) = MaxFragments
    /\ Len(chatHistory[2].text) >= 1

\* C12: when the streamed call fails, before the stream opens or after
\* some fragments, the last chat turn afterwards is an assistant turn whose
\* text is exactly the apology, and the awaiting-reply flag is cleared.
C12_FailureEndsWithApology ==
    [][ event'.op = "streamFail" =>
          /\ chatHistory' # <<>>
          /\ chatHistory'[Len(chatHistory')].role = "model"
          /\ chatHistory'[Len(chatHistory')].text = <<Apology>>
          /\ ~isChatLoading' ]_vars

\* A reply has failed after fragments and the next one before its stream
\* opened.
C12_Witness ==
    /\ Ran("streamFail")
    /\ Len(chatHistory) >= 3
    /\ chatHistory[Len(chatHistory)] = Turn("model", <<Apology>>, event.arg)
    /\ chatHistory[Len(chatHistory) - 1].role = "user"
    /\ \E i \in 1 .. Len(chatHistory) - 2 :
          /\ chatHistory[i].role = "model"
          /\ chatHistory[i].text # <<>>
          /\ chatHistory[i + 1].text = <<Apology>>

\* Call k was made on a session other than the open one: the open session
\* has sent its last chat.sent messages, and they are the latest calls.
StaleReply(k) == chat = Null \/ k <= Len(streams) - chat.sent

\* C13: once a submission is accepted, no fragment and no apology turn of a
\* reply started before it is added to the chat log, and once the new
\* report is ready the log holds only turns of the new report's chat.
C13_NewDiagnosisSupersedesChat ==
    /\ \A i \in 1 .. Len(chatHistory) :
          /\ chatHistory[i].text = <<Apology>> => ~StaleReply(chatHistory[i].reply)
          /\ \A j \in 1 .. Len(chatHistory[i].text) :
                chatHistory[i].text[j].src = "chunk" =>
                    ~StaleReply(chatHistory[i].text[j].reply)
    /\ (chat # Null /\ ~isLoading) =>
          \A i \in 1 .. Len(chatHistory) : ~StaleReply(chatHistory[i].reply)

\* C15: in every step other than a confirmed clearHistory the history is
\* left as it was or gains one entry in front of the unchanged previous
\* entries.
C15_HistoryAppendOnly ==
    [][ event' # Event("clearHistory", 1) =>
          \/ history' = history
          \/ /\ Len(history') = Len(history) + 1
             /\ Tail(history') = history ]_vars

\* A second entry has been put in front of the first, which an earlier
\* selection had shown in between.
C15_Witness ==
    /\ Ran("submitCommit")
    /\ Len(history) = 2
    /\ history[1].id = 2
    /\ history[2].id = 1
    /\ history[2].report # history[1].report

\* C16: dismissal, an accepted submission and a history selection leave no
\* alert, and only the commit of a diagnosis raises or replaces one.
C16_AlertLifecycle ==
    [][ /\ event'.op \in {"dismissAlert", "submitStart", "selectHistory"} =>
              activeAlert' = Null
        /\ (activeAlert' # Null /\ activeAlert' # activeAlert) =>
              event'.op = "submitCommit" ]_vars

\* C17: right after a submission passes validation the loading flag is set
\* and the report, the active index, the error, the alert, the chat
\* session and the chat log are all cleared, with the request outstanding.
C17_SubmitResetsSession ==
    [][ event'.op = "submitStart" =>
          /\ isLoading'
          /\ pending' # Null
          /\ report' = Null
          /\ activeIndex' = NullIndex
          /\ error' = NullStr
          /\ activeAlert' = Null
          /\ chat' = Null
          /\ chatHistory' = <<>> ]_vars

\* A submission accepted on a page that already held an entry and whose
\* chat had been used.
C17_Witness ==
    /\ Ran("submitStart")
    /\ isLoading
    /\ Len(history) >= 1
    /\ Len(streams) >= 1
    /\ alertThreshold # "None"

\* C18: when a submission succeeds, the description, the image and the
\* transcript buffer are empty in the state the commit leaves, and no
\* recording is in progress.
C18_SuccessClearsInputs ==
    [][ event'.op = "submitCommit" =>
          /\ textInput' = ""
          /\ imageFile' = NullStr
          /\ imageBase64' = NullStr
          /\ audioTranscript' = <<>>
          /\ transcriptRef' = <<>>
          /\ ~isRecording' ]_vars

\* C19: in every reachable state an open chat session goes with an active
\* report, and the session was seeded from exactly that report.
C19_ChatScopedToActiveReport ==
    chat # Null => (report # Null /\ chat.report = report)

\* A text is a JSON document when it holds exactly one value and nothing
\* else but white space.
IsJsonDocument(s) ==
    \E i \in 1 .. Len(s) :
        /\ s[i].t = "json"
        /\ \A j \in (1 .. Len(s)) \ {i} : s[j].t = "ws"

\* The upstream call rejected, or its trimmed text is no JSON document.
UpstreamFailed(resp) ==
    resp.kind = "reject" \/ ~IsJsonDocument(trimText(resp.text))

\* C20: whenever the upstream call errors or the trimmed response text does
\* not parse as JSON, the request fails with an error message and hands no
\* report value to the submission that awaits it.
C20_NoReportFromFailedCall ==
    [][ (/\ event'.op \in {"submitFail", "submitThrow", "submitCommit"}
         /\ UpstreamFailed(event'.resp)) =>
            /\ event'.op = "submitFail"
            /\ error' = IF event'.resp.kind = "reject" THEN UpstreamMsg ELSE SyntaxMsg
            /\ report' = report
            /\ history' = history ]_vars

\* A request made from a page with an entry has failed on a report wrapped
\* in a markdown fence.
C20_Witness ==
    /\ Ran("submitFail")
    /\ event.resp.text = <<Junk, Json(SampleReport), Junk>>
    /\ error = SyntaxMsg
    /\ report = Null
    /\ Len(history) >= 1

\* The piece p is part of the transcript t.
InTranscript(p, t) == \E j \in 1 .. Len(t) : t[j] = p

\* The pieces of every result finalized since the recording was started,
\* in the order they were spoken.
Finalized(rs) == Collect(rs, 1, TRUE)

\* C21: when the recognition stream has ended with the recording flag on
\* and was restarted, no later callback of the recognizer takes a segment
\* finalized before the restart out of the transcript, and the transcript
\* never holds a segment twice.
C21_RestartKeepsFinalized ==
    [][ event'.op \in {"onEnd", "onResult"} =>
          /\ \A i \in 1 .. Len(results') :
                (/\ ~results'[i].live
                 /\ results'[i].final
                 /\ InTranscript(i, audioTranscript)) =>
                    InTranscript(i, audioTranscript')
          /\ \A j, k \in 1 .. Len(audioTranscript') :
                audioTranscript'[j] = audioTranscript'[k] => j = k ]_vars

\* C22: on explicit stop of a recording the transcript buffer is exactly
\* the segments finalized since the recording was started, in order.
C22_StopKeepsFinalized ==
    [][ event'.op = "recordStop" =>
          audioTranscript' = Finalized(results) ]_vars

\* C23: when the recognition stream ends with the recording flag on, the
\* recognizer is started again, or the flag is turned off when the start
\* fails; when it ends with the flag off, it is left idle.
C23_EndRestartsWhileRecording ==
    [][ event'.op = "onEnd" =>
          IF isRecording
          THEN \/ recognition' = "running" /\ isRecording'
               \/ recognition' = "idle" /\ ~isRecording'
          ELSE recognition' = "idle" /\ ~isRecording' ]_vars

\* The stream ended in the middle of a recording that had text already and
\* the recognizer runs again.
C23_Witness ==
    /\ Ran("onEnd")
    /\ event.arg = 1
    /\ isRecording
    /\ recognition = "running"
    /\ audioTranscript # <<>>

\* C24: a recognition error turns the recording flag off and stores the
\* message naming the reason, and leaves the transcript, the history, the
\* active report and the chat as they were.
C24_RecognitionErrorKeepsState ==
    [][ event'.op = "onError" =>
          /\ ~isRecording'
          /\ error' = SpeechErrorMsg
          /\ audioTranscript' = audioTranscript
          /\ transcriptRef' = transcriptRef
          /\ history' = history
          /\ report' = report
          /\ activeIndex' = activeIndex
          /\ chat' = chat
          /\ chatHistory' = chatHistory ]_vars

\* The error came while a report was shown and a recording had finalized
\* and interim text.
C24_Witness ==
    /\ Ran("onError")
    /\ report # Null
    /\ transcriptRef # <<>>
    /\ Len(audioTranscript) > Len(transcriptRef)

\* C25: every accepted submission leaves Submitting once the upstream call
\* has returned or failed: the step that resumes handleSubmit clears the
\* loading flag and leaves a report or an error stored, and a set loading
\* flag is always cleared eventually.
C25_SubmittingEnds ==
    /\ [][ event'.op \in {"submitFail", "submitThrow", "submitCommit"} =>
             /\ ~isLoading'
             /\ pending' = Null
             /\ (report' # Null \/ error' # NullStr) ]_vars
    /\ (isLoading ~> ~isLoading)

\* A second submission has ended in an error while an entry selected
\* during the request is shown.
C25_Witness ==
    /\ Ran("submitFail")
    /\ ~isLoading
    /\ error # NullStr
    /\ report # Null
    /\ Len(history) >= 1

\* C26: the entry created by a successful submission summarizes what was
\* sent with the request: the description, whether an image payload was
\* attached, and the transcript text.
C26_EntrySummarizesSentInput ==
    [][ event'.op = "submitCommit" =>
          LET sent == pending
              entry == Head(history')
          IN /\ entry.userInput.text = sent.textInput
             /\ entry.userInput.image =
                   (sent.imageFile # NullStr /\ sent.imageBase64 # NullStr)
             /\ entry.userInput.audio = sent.audioTranscript ]_vars

\* C27: when the confirmation of clearHistory is declined, the history, the
\* active report, the active index, the chat session, the chat log and the
\* alert are all unchanged.
C27_DeclinedClearChangesNothing ==
    [][ event' = Event("clearHistory", 0) =>
          /\ history' = history
          /\ report' = report
          /\ activeIndex' = activeIndex
          /\ chat' = chat
          /\ chatHistory' = chatHistory
          /\ activeAlert' = activeAlert ]_vars

\* The confirmation was declined on a page showing a report with its alert
\* and a chat that has a message.
C27_Witness ==
    /\ event = Event("clearHistory", 0)
    /\ report # Null
    /\ activeAlert # Null
    /\ chat # Null
    /\ chatHistory # <<>>
    /\ activeIndex # NullIndex

\* C28: in every reachable state the active index is null or a valid index
\* into the history, and when it is not null the active report is the
\* report of the entry at that index.
C28_ActiveIndexPointsAtReport ==
    \/ activeIndex = NullIndex
    \/ /\ activeIndex \in 0 .. Len(history) - 1
       /\ report = history[activeIndex + 1].report

\* C29: in no reachable state do two of the loading flag, an error message
\* and an active report hold together.
C29_OneSessionState ==
    /\ ~(isLoading /\ error # NullStr)
    /\ ~(isLoading /\ report # Null)
    /\ ~(error # NullStr /\ report # Null)

\* C30: the loading flag is set exactly while a report request is
\* outstanding, and a submission is only started while the flag is clear and
\* no request is outstanding.
C30_OneRequestOutstanding ==
    /\ [](isLoading <=> pending # Null)
    /\ [][ event'.op = "submitStart" => (~isLoading /\ pending = Null) ]_vars

\* A request is outstanding and the description has been typed again: only
\* the disabled submit button keeps a second request from starting.
C30_Witness ==
    /\ Ran("setTextInput")
    /\ isLoading
    /\ pending # Null
    /\ ~NothingToSend
    /\ Len(history) < MaxHistory
    /\ ~crashed

\* C31: a committed diagnosis raises an alert exactly when the threshold
\* configured at the time of the submission is met by the report's
\* severity, whatever the threshold cell holds when the answer arrives, and
\* a change of the threshold leaves the alert as it was.
C31_ThresholdCapturedAtSubmit ==
    /\ [][ event'.op = "submitCommit" =>
             LET s == report'.severity
                 t == pending.alertThreshold
             IN /\ (activeAlert' # Null) <=>
                     (t # "None" /\ s \in Severities /\ Rank(s) >= Rank(t))
                /\ activeAlert' # Null => activeAlert'.threshold = t ]_vars
    /\ [][ event'.op = "setAlertThreshold" => activeAlert' = activeAlert ]_vars

\* A diagnosis submitted under a threshold raised its alert although the
\* threshold was switched off while the request was in flight.
C31_Witness ==
    /\ Ran("submitCommit")
    /\ activeAlert # Null
    /\ activeAlert.threshold # alertThreshold
    /\ alertThreshold = "None"

\* A threshold the shown report exceeds was configured after the report
\* was committed without an alert, and no alert appeared.
C31_WitnessChange ==
    /\ Ran("setAlertThreshold")
    /\ report # Null
    /\ report.severity = "High"
    /\ alertThreshold = "Low"
    /\ activeAlert = Null

\* C32: the chat log always alternates user and assistant turns, starting
\* with a user turn: every accepted message is followed by exactly one
\* assistant turn and no two assistant turns are consecutive.
C32_ChatLogAlternates ==
    \A i \in 1 .. Len(chatHistory) :
        chatHistory[i].role = (IF i % 2 = 1 THEN "user" ELSE "model")

\* C33: every submission that passes validation sends a non-empty
\* description, an image attachment or a non-empty transcript, and an
\* attachment sent carries the media type and the data of one and the same
\* file.
C33_SentInputNonEmptyAndPaired ==
    [][ event'.op = "submitStart" =>
          LET sent == pending'
          IN /\ \/ sent.textInput # ""
                \/ imagePayload(sent) # Null
                \/ sent.audioTranscript # <<>>
             /\ imagePayload(sent) # Null =>
                  \E f \in ImageFiles :
                      /\ imagePayload(sent).mimeType = MimeOf(f)
                      /\ imagePayload(sent).data = Base64Of(f) ]_vars

\* The first half of C33 alone: something is sent.
C33_SomethingSent ==
    [][ event'.op = "submitStart" =>
          \/ pending'.textInput # ""
          \/ imagePayload(pending') # Null
          \/ pending'.audioTranscript # <<>> ]_vars

\* The second half of C33 alone: the attachment is of one file.
C33_AttachmentPaired ==
    [][ ( event'.op = "submitStart" /\ imagePayload(pending') # Null ) =>
          \E f \in ImageFiles :
              /\ imagePayload(pending').mimeType = MimeOf(f)
              /\ imagePayload(pending').data = Base64Of(f) ]_vars

====
